---- MODULE Spec2Model ----
(***************************************************************************)
(* Daylight mood tracker: the Express handlers of the backend              *)
(* (server.js, routes/moods.js) over the Firestore collection              *)
(* 'mood_ratings'.                                                         *)
(*                                                                         *)
(* Time is counted in whole days.  A JavaScript value is a record          *)
(* [t, n, s]: t is its type tag, n its number, s its characters.           *)
(***************************************************************************)
EXTENDS Integers, Sequences, FiniteSets, TLC

VARIABLES store, nextId, now, storeUp, resp, deleted, recentMoods, chartData,
          calls, writes,
          user, syncingUser, firestoreUserId, syncError, syncs,
          form, editingMoodId, submittingMood, moodSubmitError, fetchingMoods,
          running

\* the state of App: the useState values and the syncs awaiting their response
appVars == <<user, syncingUser, firestoreUserId, syncError, syncs>>

\* the state of MoodTracker besides recentMoods and the chart: the useState
\* values and the handler runs awaiting their response
trackerVars ==
    <<form, editingMoodId, submittingMood, moodSubmitError, fetchingMoods,
      running>>

\* the state of the browser
clientVars == <<recentMoods, chartData, appVars, trackerVars>>

\* the state of the backend and of the document store
serverVars == <<store, nextId, now, storeUp, resp, deleted>>

\* the handler runs that are between two awaits, and the count of writes
raceVars == <<calls, writes>>

vars ==
    <<store, nextId, now, storeUp, resp, deleted, recentMoods, chartData,
      calls, writes,
      user, syncingUser, firestoreUserId, syncError, syncs,
      form, editingMoodId, submittingMood, moodSubmitError, fetchingMoods,
      running>>

\* ---------------------------------------------------------------- bounds
MaxIds == 2
MaxTime == 1

Ids == 1..MaxIds
Times == 0..MaxTime
Uids == {"u1", "u2"}
NoUid == ""

\* ------------------------------------------------------ JavaScript values
Undef == [t |-> "undef", n |-> 0, s |-> <<>>]
NaN == [t |-> "nan", n |-> 0, s |-> <<>>]
Num(n) == [t |-> "num", n |-> n, s |-> <<>>]
Str(s) == [t |-> "str", n |-> 0, s |-> s]

\* !v is FALSE
Truthy(v) ==
    CASE v.t = "num" -> v.n # 0
      [] v.t = "str" -> v.s # <<>>
      [] OTHER -> FALSE

\* a || b
OrElse(a, b) == IF Truthy(a) THEN a ELSE b

DigitChars == <<"0", "1", "2", "3", "4", "5", "6", "7", "8", "9">>
IsDigit(c) == \E i \in 1..10 : DigitChars[i] = c
DigitVal(c) == (CHOOSE i \in 1..10 : DigitChars[i] = c) - 1

\* the number of leading decimal digits of s from position i on
RECURSIVE DigitRun(_, _)
DigitRun(s, i) ==
    IF i <= Len(s) /\ IsDigit(s[i]) THEN 1 + DigitRun(s, i + 1) ELSE 0

\* the value of the k digits of s from position i on, after the value acc
RECURSIVE DigitsValue(_, _, _, _)
DigitsValue(s, i, k, acc) ==
    IF k = 0 THEN acc
    ELSE DigitsValue(s, i + 1, k - 1, 10 * acc + DigitVal(s[i]))

\* parseInt(v): an optional sign and the longest run of digits; NaN without one
ParseInt(v) ==
    CASE v.t = "num" -> Num(v.n)
      [] v.t = "str" ->
            LET neg == Len(v.s) >= 1 /\ v.s[1] = "-"
                from == IF neg THEN 2 ELSE 1
                k == DigitRun(v.s, from)
                m == DigitsValue(v.s, from, k, 0)
            IN  IF k = 0 THEN NaN ELSE Num(IF neg THEN 0 - m ELSE m)
      [] OTHER -> NaN

\* the ISO string of day d (what dayjs().toISOString() sends)
IsoString(d) == Str(<<"T", DigitChars[d + 1]>>)

\* new Date(v): the day an ISO string names, Invalid Date (NaN) otherwise
NewDate(v) ==
    CASE v.t = "num" -> Num(v.n)
      [] v.t = "str" ->
            IF Len(v.s) >= 2 /\ v.s[1] = "T" /\ DigitRun(v.s, 2) = Len(v.s) - 1
            THEN Num(DigitsValue(v.s, 2, Len(v.s) - 1, 0))
            ELSE NaN
      [] OTHER -> NaN

\* ------------------------------------------------------------ the inputs
MoodInputs == {Undef, Num(0), Num(1), Num(5), Num(6), Str(<<"x">>)}
NotesInputs == {Undef, Str(<<"o", "k">>)}
RecordedAtInputs == {Undef, Str(<<"x">>), IsoString(0), IsoString(1)}
DaysInputs == {Undef, Str(<<"0">>), Str(<<"1">>), Str(<<"x">>)}

\* every body carries a userId field naming u1, which no handler reads
UserIdInputs == {"u1"}

Bodies ==
    [moodValue : MoodInputs, notes : NotesInputs,
     recordedAt : RecordedAtInputs, userId : UserIdInputs]

\* the bodies the MoodTracker component posts: moodValue and notes alone
InlineBodies == {b \in Bodies : b.recordedAt = Undef}

\* the Authorization header: absent, another scheme, or 'Bearer ' + token
NoHeader == [present |-> FALSE, bearer |-> FALSE, token |-> ""]
Headers ==
    {NoHeader, [present |-> TRUE, bearer |-> FALSE, token |-> "tok_u1"]}
    \cup {[present |-> TRUE, bearer |-> TRUE, token |-> k] :
            k \in {"", "expired", "tok_u1", "tok_u2"}}

\* admin.auth().verifyIdToken(idToken).uid, NoUid when it throws
VerifyIdToken(token) ==
    CASE token = "tok_u1" -> "u1"
      [] token = "tok_u2" -> "u2"
      [] OTHER -> NoUid

\* req.headers.authorization?.split('Bearer ')[1]
IdToken(hdr) == IF hdr.present /\ hdr.bearer THEN hdr.token ELSE ""

\* FirebaseUid that takes the token of a header of any scheme
FirebaseUidAnyScheme(hdr) ==
    IF ~hdr.present \/ hdr.token = "" THEN NoUid ELSE VerifyIdToken(hdr.token)

\* verifyFirebaseIdToken: req.firebaseUid, NoUid when it answers 401
FirebaseUid(hdr) ==
    IF IdToken(hdr) = "" THEN NoUid ELSE VerifyIdToken(IdToken(hdr))

\* the headers verifyFirebaseIdToken lets through to the route handler
Authenticated == {hdr \in Headers : FirebaseUid(hdr) # NoUid}

\* ---------------------------------------------------------- the responses
NoMoodId == Undef

\* no response; caller, id and days repeat the request the response answers
NoResp ==
    [op |-> "none", status |-> 0, caller |-> NoUid, id |-> 0, days |-> Undef,
     moodId |-> NoMoodId, moods |-> <<>>]

\* res.status(status) of the handler of op, with no moodId and no moods
Response(op, status, caller, id) ==
    [op |-> op, status |-> status, caller |-> caller, id |-> id, days |-> Undef,
     moodId |-> NoMoodId, moods |-> <<>>]

\* ------------------------------------------- handler runs between awaits
MaxCalls == 2
Calls == 1..MaxCalls

\* the body with no field but userId: the empty patch
NoBody ==
    [moodValue |-> Undef, notes |-> Undef, recordedAt |-> Undef, userId |-> "u1"]

\* no handler run; pc is "checked" after the awaited get() and its checks,
\* "done" after the response; readAt and wroteAt count the writes of the
\* store at the get() and after the run's own write
NoCall ==
    [op |-> "none", pc |-> "none", uid |-> NoUid, id |-> 0, body |-> NoBody,
     status |-> 0, readAt |-> 0, wroteAt |-> 0]

NoCalls ==
    /\ calls = [c \in Calls |-> NoCall]
    /\ writes = 0

\* ------------------------------------------------ the browser at rest
MaxSyncs == 3
Syncs == 1..MaxSyncs

\* App before any auth state: no user, no sync
AppSignedOut ==
    /\ user = NoUid
    /\ syncingUser = FALSE
    /\ firestoreUserId = NoUid
    /\ syncError = FALSE
    /\ syncs = [k \in Syncs |-> NoUid]

\* App with u signed in and synced: it renders MoodTracker
AppSynced(u) ==
    /\ user = u
    /\ syncingUser = FALSE
    /\ firestoreUserId = u
    /\ syncError = FALSE
    /\ syncs = [k \in Syncs |-> NoUid]

MaxRunning == 2
Runs == 1..MaxRunning

\* no handler run of MoodTracker; a run awaits the response of the request
\* it sent: method and id name the request, body is what it carries
NoRun == [handler |-> "none", method |-> "none", id |-> 0, body |-> NoBody]

\* fetchRecentMoods awaiting the response of GET /recent?days=30
FetchRun == [handler |-> "fetch", method |-> "GET", id |-> 0, body |-> NoBody]

\* editingMoodId of no edit (null)
NoEdit == 0

\* selectedDateTime of no date or of an invalid one
NoDate == 0 - 1

\* the form as useState sets it and as a successful submit resets it
DefaultForm == [moodValue |-> 3, moodNotes |-> Str(<<>>), selectedDateTime |-> 0]

\* MoodTracker with its useState values and no handler running, the list
\* being fetched or not
TrackerState(fetching) ==
    /\ form = DefaultForm
    /\ editingMoodId = NoEdit
    /\ submittingMood = FALSE
    /\ moodSubmitError = FALSE
    /\ fetchingMoods = fetching
    /\ running = [r \in Runs |-> NoRun]

\* ---------------------------------------------------------------- Init
Init ==
    /\ store = <<>>
    /\ nextId = 1
    /\ now = 0
    /\ storeUp = TRUE
    /\ resp = NoResp
    /\ deleted = {}
    /\ recentMoods = <<>>
    /\ chartData = <<>>
    /\ NoCalls
    /\ AppSignedOut
    /\ TrackerState(TRUE)

\* collection.add / doc.set: the store with document id holding e
WithDoc(st, id, e) ==
    [i \in DOMAIN st \cup {id} |-> IF i = id THEN e ELSE st[i]]

\* WithoutDoc that keeps the document
WithoutDocKept(st, id) == st

\* doc.delete(): the store without document id
WithoutDoc(st, id) == [i \in DOMAIN st \ {id} |-> st[i]]

\* no response is on the wire: requests are handled one after the other
Idle == resp = NoResp

\* the response reaches the client
Deliver ==
    /\ ~Idle
    /\ resp' = NoResp
    /\ UNCHANGED <<store, nextId, now, storeUp, deleted, clientVars, raceVars>>

\* the clock advances
Tick ==
    /\ Idle
    /\ now < MaxTime
    /\ now' = now + 1
    /\ UNCHANGED <<store, nextId, storeUp, resp, deleted, clientVars, raceVars>>

\* the document store becomes unavailable or available again
StoreFlip ==
    /\ Idle
    /\ storeUp' = ~storeUp
    /\ UNCHANGED <<store, nextId, now, resp, deleted, clientVars, raceVars>>

\* the routes behind verifyFirebaseIdToken
Routes == {"post", "list", "put", "delete", "postInline", "listInline"}

\* verifyFirebaseIdToken answers 401 and the route handler does not run
VerifyReject(op, hdr) ==
    /\ Idle
    /\ FirebaseUid(hdr) = NoUid
    /\ resp' = Response(op, 401, NoUid, 0)
    /\ UNCHANGED <<store, nextId, now, storeUp, deleted, clientVars, raceVars>>

\* ------------------------------------------- routes/moods.js: the router
\* the status router.post answers with
PostStatus(body) ==
    IF ~Truthy(body.moodValue) THEN 400
    ELSE IF ~Truthy(body.recordedAt) THEN 400
    ELSE IF NewDate(body.recordedAt) = NaN THEN 500
    ELSE 201

\* PostEntry with the owner taken from the body's userId when it has one
PostEntryBodyOwner(uid, body) ==
    [userId |-> IF body.userId # NoUid THEN body.userId ELSE uid,
     moodValue |-> ParseInt(body.moodValue),
     notes |-> OrElse(body.notes, Str(<<>>)),
     recordedAt |-> NewDate(body.recordedAt).n]

\* the document router.post adds for the caller uid
PostEntry(uid, body) ==
    [userId |-> uid,
     moodValue |-> ParseInt(body.moodValue),
     notes |-> OrElse(body.notes, Str(<<>>)),
     recordedAt |-> NewDate(body.recordedAt).n]

\* POST /api/moods.  add() is not awaited: the handler answers 201 whatever
\* becomes of the write, and moodRef.id reads the id of a Promise.
Post(hdr, body) ==
    LET uid == FirebaseUid(hdr)
        status == PostStatus(body)
    IN
    /\ Idle
    /\ uid # NoUid
    /\ status = 201 => nextId <= MaxIds
    /\ resp' = Response("post", status, uid, 0)
    /\ IF status = 201 /\ storeUp
       THEN /\ store' = WithDoc(store, nextId, PostEntry(uid, body))
            /\ nextId' = nextId + 1
       ELSE UNCHANGED <<store, nextId>>
    /\ UNCHANGED <<now, storeUp, deleted, clientVars, raceVars>>

\* the query string's default of router.get('/recent')
DefaultDays == Str(<<"3", "0">>)

\* Matching without the where('userId', '==', firebaseUid) clause
MatchingAnyOwner(st, uid, cutoff) ==
    {i \in DOMAIN st : st[i].recordedAt >= cutoff}

\* the documents of uid recorded at or after cutoff
Matching(st, uid, cutoff) ==
    {i \in DOMAIN st : st[i].userId = uid /\ st[i].recordedAt >= cutoff}

\* orderBy('recordedAt', 'desc'): the ids of S newest first, equal times by
\* document id in the same direction
RECURSIVE OrderDesc(_, _)
OrderDesc(st, S) ==
    IF S = {} THEN <<>>
    ELSE LET m == CHOOSE i \in S : \A j \in S :
                    \/ st[i].recordedAt > st[j].recordedAt
                    \/ st[i].recordedAt = st[j].recordedAt /\ i >= j
         IN  <<m>> \o OrderDesc(st, S \ {m})

\* Moods with the documents in the opposite order
MoodsReversed(st, order) ==
    [k \in 1..Len(order) |->
        LET i == order[Len(order) + 1 - k] IN
        [id |-> i, userId |-> st[i].userId,
         moodValue |-> st[i].moodValue, notes |-> st[i].notes,
         recordedAt |-> st[i].recordedAt]]

\* snapshot.docs.map(doc => ({ id: doc.id, ...doc.data() }))
Moods(st, order) ==
    [k \in 1..Len(order) |->
        [id |-> order[k], userId |-> st[order[k]].userId,
         moodValue |-> st[order[k]].moodValue, notes |-> st[order[k]].notes,
         recordedAt |-> st[order[k]].recordedAt]]

\* parseInt(req.query.days || dflt)
Days(daysQ, dflt) == ParseInt(OrElse(daysQ, dflt))

\* Recent that answers 404 when the query finds no document
RecentEmptyIsNotFound(op, hdr, daysQ, dflt) ==
    LET uid == FirebaseUid(hdr)
        days == Days(daysQ, dflt)
        found == Matching(store, uid, now - days.n)
    IN
    /\ Idle
    /\ uid # NoUid
    /\ IF days = NaN \/ ~storeUp
       THEN resp' = [Response(op, 500, uid, 0) EXCEPT !.days = daysQ]
       ELSE IF found = {}
       THEN resp' = [Response(op, 404, uid, 0) EXCEPT !.days = daysQ]
       ELSE resp' = [Response(op, 200, uid, 0) EXCEPT
                !.days = daysQ,
                !.moods = Moods(store, OrderDesc(store, found))]
    /\ UNCHANGED <<store, nextId, now, storeUp, deleted, clientVars, raceVars>>

\* the handler of GET /recent with the default dflt for ?days
Recent(op, hdr, daysQ, dflt) ==
    LET uid == FirebaseUid(hdr)
        days == Days(daysQ, dflt)
        cutOffDate == now - days.n
    IN
    /\ Idle
    /\ uid # NoUid
    /\ IF days = NaN \/ ~storeUp
       THEN resp' = [Response(op, 500, uid, 0) EXCEPT !.days = daysQ]
       ELSE resp' = [Response(op, 200, uid, 0) EXCEPT
                !.days = daysQ,
                !.moods = Moods(store, OrderDesc(store, Matching(store, uid, cutOffDate)))]
    /\ UNCHANGED <<store, nextId, now, storeUp, deleted, clientVars, raceVars>>

\* GET /api/moods/recent?days=N
GetRecent(hdr, daysQ) == Recent("list", hdr, daysQ, DefaultDays)

\* the fields router.put passes to update()
UpdateFields(body) ==
    {f \in {"moodValue", "notes", "recordedAt"} : body[f] # Undef}

\* UpdateData with the body's userId copied along
UpdateDataWithUserId(body) ==
    [f \in UpdateFields(body) \cup {"userId"} |->
        CASE f = "moodValue" -> ParseInt(body.moodValue)
          [] f = "notes" -> body.notes
          [] f = "recordedAt" -> NewDate(body.recordedAt).n
          [] f = "userId" -> body.userId]

\* updateData as router.put fills it
UpdateData(body) ==
    [f \in UpdateFields(body) |->
        CASE f = "moodValue" -> ParseInt(body.moodValue)
          [] f = "notes" -> body.notes
          [] f = "recordedAt" -> NewDate(body.recordedAt).n]

\* Merge that keeps no field the data does not name, but for the owner
MergeOverwrite(e, data) ==
    [f \in DOMAIN e |->
        IF f \in DOMAIN data THEN data[f]
        ELSE IF f = "userId" THEN e[f]
        ELSE IF f = "recordedAt" THEN 0
        ELSE Str(<<>>)]

\* doc.update(data): the fields of data replace those of the document
Merge(e, data) ==
    [f \in DOMAIN e |-> IF f \in DOMAIN data THEN data[f] ELSE e[f]]

\* PutStatus without the ownership check
PutStatusNoOwnerCheck(up, st, uid, id, body) ==
    IF ~up THEN 500
    ELSE IF id \notin DOMAIN st THEN 404
    ELSE IF body.recordedAt # Undef /\ NewDate(body.recordedAt) = NaN THEN 500
    ELSE 200

\* the status router.put answers with when update() accepts the data
PutStatus(up, st, uid, id, body) ==
    IF ~up THEN 500
    ELSE IF id \notin DOMAIN st THEN 404
    ELSE IF st[id].userId # uid THEN 403
    ELSE IF body.recordedAt # Undef /\ NewDate(body.recordedAt) = NaN THEN 500
    ELSE 200

\* PUT /api/moods/:id.  update() of no field at all is answered by the
\* store client either way, and writes nothing.
Put(hdr, id, body) ==
    LET uid == FirebaseUid(hdr)
        status == PutStatus(storeUp, store, uid, id, body)
    IN
    /\ Idle
    /\ uid # NoUid
    /\ IF status = 200 /\ UpdateFields(body) = {}
       THEN /\ \E st \in {200, 500} :
                    resp' = Response("put", st, uid, id)
            /\ UNCHANGED store
       ELSE /\ resp' = Response("put", status, uid, id)
            /\ IF status = 200
               THEN store' = WithDoc(store, id, Merge(store[id], UpdateData(body)))
               ELSE UNCHANGED store
    /\ UNCHANGED <<nextId, now, storeUp, deleted, clientVars, raceVars>>

\* DeleteStatus without the doc.exists check
DeleteStatusNoExistsCheck(up, st, uid, id) ==
    IF ~up THEN 500
    ELSE IF id \in DOMAIN st /\ st[id].userId # uid THEN 403
    ELSE 204

\* the status router.delete answers with
DeleteStatus(up, st, uid, id) ==
    IF ~up THEN 500
    ELSE IF id \notin DOMAIN st THEN 404
    ELSE IF st[id].userId # uid THEN 403
    ELSE 204

\* DELETE /api/moods/:id; deleted remembers the ids whose delete was answered 204
Delete(hdr, id) ==
    LET uid == FirebaseUid(hdr)
        status == DeleteStatus(storeUp, store, uid, id)
    IN
    /\ Idle
    /\ uid # NoUid
    /\ resp' = Response("delete", status, uid, id)
    /\ IF status = 204
       THEN /\ store' = WithoutDoc(store, id)
            /\ deleted' = deleted \cup {id}
       ELSE UNCHANGED <<store, deleted>>
    /\ UNCHANGED <<nextId, now, storeUp, clientVars, raceVars>>

\* ------------------------------------- server.js with the routes inline
\* the status app.post('/api/moods') answers with
PostInlineStatus(up, body) ==
    IF ~Truthy(body.moodValue) THEN 400
    ELSE IF ~up THEN 500
    ELSE 201

\* the document app.post('/api/moods') adds for the caller uid
PostInlineEntry(uid, body) ==
    [userId |-> uid,
     moodValue |-> ParseInt(body.moodValue),
     notes |-> OrElse(body.notes, Str(<<>>)),
     recordedAt |-> now]

\* POST /api/moods of server.js: the add is awaited, the time is the store's
PostInline(hdr, body) ==
    LET uid == FirebaseUid(hdr)
        status == PostInlineStatus(storeUp, body)
    IN
    /\ Idle
    /\ uid # NoUid
    /\ status = 201 => nextId <= MaxIds
    /\ IF status = 201
       THEN /\ resp' = [Response("postInline", 201, uid, 0)
                            EXCEPT !.moodId = Num(nextId)]
            /\ store' = WithDoc(store, nextId, PostInlineEntry(uid, body))
            /\ nextId' = nextId + 1
       ELSE /\ resp' = Response("postInline", status, uid, 0)
            /\ UNCHANGED <<store, nextId>>
    /\ UNCHANGED <<now, storeUp, deleted, clientVars, raceVars>>

\* the query string's default of app.get('/api/moods/recent')
DefaultDaysInline == Str(<<"7">>)

\* GET /api/moods/recent?days=N of server.js
GetRecentInline(hdr, daysQ) == Recent("listInline", hdr, daysQ, DefaultDaysInline)

\* ---------------------------------------------------------------- Next
Next ==
    \/ Tick
    \/ Deliver
    \/ \E op \in Routes, hdr \in Headers :
            VerifyReject(op, hdr)
    \/ \E hdr \in Authenticated, body \in Bodies : Post(hdr, body)
    \/ \E hdr \in Authenticated, daysQ \in DaysInputs : GetRecent(hdr, daysQ)
    \/ \E hdr \in Authenticated, id \in Ids, body \in Bodies : Put(hdr, id, body)
    \/ \E hdr \in Authenticated, id \in Ids : Delete(hdr, id)
    \/ \E hdr \in Authenticated, body \in InlineBodies : PostInline(hdr, body)
    \/ \E hdr \in Authenticated, daysQ \in DaysInputs : GetRecentInline(hdr, daysQ)

Spec == Init /\ [][Next]_vars

\* the same with a document store that may fail
NextOutage == Next \/ StoreFlip

SpecOutage == Init /\ [][NextOutage]_vars

\* ------------------------------------------- App.js: the trend chart
\* The browser keeps the time of day: a Date is a count of time stamps,
\* StampsPerDay of them to the UTC day.
MaxStamp == 3
MaxMoods == 3
StampsPerDay == 2

Stamps == 0..MaxStamp

\* the entries of recentMoods, as far as the chart reads them
ChartMoods == [moodValue : 1..5, recordedAt : Stamps]

\* what fetchRecentMoods can put in recentMoods: the moods of a 200 of
\* GET /recent, newest first
RecentMoodsInputs ==
    UNION {{ms \in [1..n -> ChartMoods] :
                \A k \in 1..(n - 1) : ms[k].recordedAt >= ms[k + 1].recordedAt} :
           n \in 0..MaxMoods}

\* DateString that keeps the time of day
DateStringWithTime(date) == date

\* date.toISOString().split('T')[0]: the UTC day of a Date
DateString(date) == date \div StampsPerDay

\* dailyMoods after the forEach has visited the first k moods
RECURSIVE DailyMoods(_, _)
DailyMoods(moods, k) ==
    IF k = 0 THEN <<>>
    ELSE LET prev == DailyMoods(moods, k - 1)
             mood == moods[k]
             dateString == DateString(mood.recordedAt)
             slot == IF dateString \in DOMAIN prev THEN prev[dateString]
                     ELSE [totalRating |-> 0, count |-> 0,
                           originalDate |-> mood.recordedAt]
         IN  [d \in DOMAIN prev \cup {dateString} |->
                IF d = dateString
                THEN [slot EXCEPT !.totalRating = @ + mood.moodValue,
                                  !.count = @ + 1]
                ELSE prev[d]]

\* SortedDates with the latest day first
RECURSIVE SortedDatesDesc(_)
SortedDatesDesc(S) ==
    IF S = {} THEN <<>>
    ELSE LET a == CHOOSE d \in S : \A e \in S : d >= e
         IN  <<a>> \o SortedDatesDesc(S \ {a})

\* Object.keys(dailyMoods).sort((a, b) => new Date(a) - new Date(b))
RECURSIVE SortedDates(_)
SortedDates(S) ==
    IF S = {} THEN <<>>
    ELSE LET a == CHOOSE d \in S : \A e \in S : d <= e
         IN  <<a>> \o SortedDates(S \ {a})

\* moodColors[roundedRating] || '#CCCCCC'
MoodColors(roundedRating) ==
    CASE roundedRating = 1 -> "#FF0000"
      [] roundedRating = 2 -> "#FFA500"
      [] roundedRating = 3 -> "#FFFF00"
      [] roundedRating = 4 -> "#008000"
      [] roundedRating = 5 -> "#0000FF"
      [] OTHER -> "#CCCCCC"

\* AvgRatingFixed2 of the average rounded to a whole rating first
AvgRatingOfRounded(totalRating, count) ==
    100 * ((2 * totalRating + count) \div (2 * count))

\* parseFloat((totalRating / count).toFixed(2)), in hundredths
AvgRatingFixed2(totalRating, count) ==
    (200 * totalRating + count) \div (2 * count)

\* Math.round(totalRating / count)
RoundedRating(totalRating, count) ==
    (2 * totalRating + count) \div (2 * count)

\* prepareChartData(moods): one point per day, x the Date first met for it
PrepareChartData(moods) ==
    LET dailyMoods == DailyMoods(moods, Len(moods))
        sortedDates == SortedDates(DOMAIN dailyMoods)
    IN  [k \in 1..Len(sortedDates) |->
            LET day == dailyMoods[sortedDates[k]] IN
            [x |-> day.originalDate,
             y |-> AvgRatingFixed2(day.totalRating, day.count),
             fillColor |-> MoodColors(RoundedRating(day.totalRating, day.count))]]

\* the browser with a fetched list that the chart has not yet drawn
InitChart ==
    /\ store = <<>>
    /\ nextId = 1
    /\ now = 0
    /\ storeUp = TRUE
    /\ resp = NoResp
    /\ deleted = {}
    /\ recentMoods \in RecentMoodsInputs
    /\ chartData = <<>>
    /\ NoCalls
    /\ AppSynced("u1")
    /\ TrackerState(FALSE)

\* the effect on recentMoods: the chart's series, none for an empty list
ChartEffect ==
    /\ chartData' = IF Len(recentMoods) > 0 THEN PrepareChartData(recentMoods)
                    ELSE <<>>
    /\ UNCHANGED <<recentMoods, appVars, trackerVars, serverVars, raceVars>>

NextChart == ChartEffect

SpecChart == InitChart /\ [][NextChart]_vars

\* ------------------------- routes/moods.js: requests that run concurrently
\* A handler runs up to an await, the store serves the awaited call, and
\* the handler runs on.  router.put awaits get() and then update();
\* router.delete awaits get() and then delete().

\* the entry of u1 the concurrent requests address
RaceEntry ==
    PostEntry("u1", [moodValue |-> Num(1), notes |-> Undef,
                     recordedAt |-> IsoString(0), userId |-> "u1"])

\* the patches of the concurrent updates: at least one field each
RacePatches ==
    {b \in Bodies :
        /\ b.moodValue \in {Undef, Num(1), Num(5)}
        /\ UpdateFields(b) # {}}

\* the fields of an entry that set() writes when update() finds no document
BlankEntry ==
    [userId |-> "u1", moodValue |-> Undef, notes |-> Str(<<>>), recordedAt |-> 0]

\* Updated that creates the document when there is none, as set() with merge
UpdatedOrCreated(st, id, data) ==
    WithDoc(st, id, Merge(IF id \in DOMAIN st THEN st[id] ELSE BlankEntry, data))

\* the store after moodRef.update(data): update() of a document that is not
\* there is rejected and writes nothing
Updated(st, id, data) ==
    IF id \in DOMAIN st THEN WithDoc(st, id, Merge(st[id], data)) ELSE st

InitRace ==
    /\ store = WithDoc(<<>>, 1, RaceEntry)
    /\ nextId = 2
    /\ now = 0
    /\ storeUp = TRUE
    /\ resp = NoResp
    /\ deleted = {}
    /\ recentMoods = <<>>
    /\ chartData = <<>>
    /\ NoCalls
    /\ AppSignedOut
    /\ TrackerState(TRUE)

\* router.put up to 'await moodRef.update(updateData)': the get(), the
\* checks, updateData
PutRead(c, hdr, id, body) ==
    LET uid == FirebaseUid(hdr)
        status == PutStatus(storeUp, store, uid, id, body)
    IN
    /\ calls[c] = NoCall
    /\ uid # NoUid
    /\ calls' = [calls EXCEPT ![c] =
            [op |-> "put", pc |-> IF status = 200 THEN "checked" ELSE "done",
             uid |-> uid, id |-> id, body |-> body,
             status |-> IF status = 200 THEN 0 ELSE status,
             readAt |-> writes, wroteAt |-> 0]]
    /\ UNCHANGED <<serverVars, clientVars, writes>>

\* router.put from the update() on: 200 when the store took it, else 500
PutWrite(c) ==
    LET id == calls[c].id
        after == Updated(store, id, UpdateData(calls[c].body))
        took == id \in DOMAIN after
    IN
    /\ calls[c].op = "put"
    /\ calls[c].pc = "checked"
    /\ store' = after
    /\ writes' = IF took THEN writes + 1 ELSE writes
    /\ calls' = [calls EXCEPT ![c].pc = "done",
                              ![c].status = IF took THEN 200 ELSE 500,
                              ![c].wroteAt = IF took THEN writes + 1 ELSE 0]
    /\ UNCHANGED <<nextId, now, storeUp, resp, deleted, clientVars>>

\* router.delete up to 'await moodRef.delete()': the get() and the checks
DeleteRead(c, hdr, id) ==
    LET uid == FirebaseUid(hdr)
        status == DeleteStatus(storeUp, store, uid, id)
    IN
    /\ calls[c] = NoCall
    /\ uid # NoUid
    /\ calls' = [calls EXCEPT ![c] =
            [op |-> "delete", pc |-> IF status = 204 THEN "checked" ELSE "done",
             uid |-> uid, id |-> id, body |-> NoBody,
             status |-> IF status = 204 THEN 0 ELSE status,
             readAt |-> writes, wroteAt |-> 0]]
    /\ UNCHANGED <<serverVars, clientVars, writes>>

\* router.delete from the delete() on: delete() of no document succeeds too
DeleteWrite(c) ==
    /\ calls[c].op = "delete"
    /\ calls[c].pc = "checked"
    /\ store' = WithoutDoc(store, calls[c].id)
    /\ deleted' = deleted \cup {calls[c].id}
    /\ writes' = writes + 1
    /\ calls' = [calls EXCEPT ![c].pc = "done", ![c].status = 204,
                              ![c].wroteAt = writes + 1]
    /\ UNCHANGED <<nextId, now, storeUp, resp, clientVars>>

NextRace ==
    \E c \in Calls :
        \/ \E hdr \in Authenticated, id \in Ids, body \in RacePatches :
                PutRead(c, hdr, id, body)
        \/ PutWrite(c)
        \/ \E hdr \in Authenticated, id \in Ids : DeleteRead(c, hdr, id)
        \/ DeleteWrite(c)

SpecRace == InitRace /\ [][NextRace]_vars

\* --------------------------------------------- App.js: App and the sync
\* the values onAuthStateChanged reports: a signed-in user or none
AuthStates == Uids \cup {NoUid}

\* {!syncingUser && firestoreUserId && <MoodTracker .../>} under {user && ...}
MoodTrackerRendered ==
    user # NoUid /\ ~syncingUser /\ firestoreUserId # NoUid

\* the onAuthStateChanged callback with currentUser; for a user it runs
\* syncUserWithBackend up to its await of the response
AuthStateChanged(currentUser) ==
    /\ currentUser # user
    /\ user' = currentUser
    /\ IF currentUser # NoUid
       THEN /\ \E k \in Syncs :
                /\ syncs[k] = NoUid
                /\ \A j \in Syncs : j < k => syncs[j] # NoUid
                /\ syncs' = [syncs EXCEPT ![k] = currentUser]
            /\ syncingUser' = TRUE
            /\ syncError' = FALSE
            /\ UNCHANGED firestoreUserId
       ELSE /\ firestoreUserId' = NoUid
            /\ UNCHANGED <<syncingUser, syncError, syncs>>
    /\ UNCHANGED <<recentMoods, chartData, trackerVars, serverVars, raceVars>>

\* syncUserWithBackend of the sync k after a response that is ok
SyncSucceeds(k) ==
    /\ syncs[k] # NoUid
    /\ firestoreUserId' = syncs[k]
    /\ syncingUser' = FALSE
    /\ syncs' = [syncs EXCEPT ![k] = NoUid]
    /\ UNCHANGED <<user, syncError>>
    /\ UNCHANGED <<recentMoods, chartData, trackerVars, serverVars, raceVars>>

\* syncUserWithBackend of the sync k after a failure: the catch
SyncFails(k) ==
    /\ syncs[k] # NoUid
    /\ syncError' = TRUE
    /\ firestoreUserId' = NoUid
    /\ syncingUser' = FALSE
    /\ syncs' = [syncs EXCEPT ![k] = NoUid]
    /\ UNCHANGED user
    /\ UNCHANGED <<recentMoods, chartData, trackerVars, serverVars, raceVars>>

NextApp ==
    \/ \E currentUser \in AuthStates : AuthStateChanged(currentUser)
    \/ \E k \in Syncs : SyncSucceeds(k)
    \/ \E k \in Syncs : SyncFails(k)

SpecApp == Init /\ [][NextApp]_vars

\* ------------------------------------------------- App.js: MoodTracker
\* what the slider, the notes field and the date picker can hold
FormMoods == {3, 5}
FormNotes == {Str(<<>>), Str(<<"o", "k">>)}
FormDates == {0, NoDate}

\* ?days=30 of fetchRecentMoods
FetchDays == 30

\* the checks of handleSubmitMood before it sends anything
FormPasses ==
    /\ user # NoUid
    /\ ~(form.moodValue < 1 \/ form.moodValue > 5)
    /\ form.selectedDateTime # NoDate

\* moodData: what handleSubmitMood sends
MoodData ==
    [moodValue |-> Num(form.moodValue), notes |-> form.moodNotes,
     recordedAt |-> IsoString(form.selectedDateTime), userId |-> NoUid]

\* Method that posts whether a mood is being edited or not
MethodAlwaysPost(editing) == "POST"

\* if (editingMoodId) PUT else POST
Method(editing) == IF editing # NoEdit THEN "PUT" ELSE "POST"

\* the Recent Moods table is on screen
TableShown == ~fetchingMoods /\ Len(recentMoods) > 0

\* response.ok
Ok(status) == status >= 200 /\ status <= 299

\* the first run that is free
FreeRun(r) ==
    /\ running[r] = NoRun
    /\ \A q \in Runs : q < r => running[q] # NoRun

\* the POST requests that have not been answered
PostsInFlight == {r \in Runs : running[r].method = "POST"}

\* moodsWithDates: recordedAt becomes a Date, the current date without _seconds
MoodsWithDates(moods) ==
    [k \in 1..Len(moods) |->
        [moods[k] EXCEPT !.recordedAt = IF @ # 0 THEN @ ELSE now]]

\* MoodTracker once App renders it for u1: the useState values, and the
\* mount effect has called fetchRecentMoods
InitTracker ==
    /\ store = <<>>
    /\ nextId = 1
    /\ now = 0
    /\ storeUp = TRUE
    /\ resp = NoResp
    /\ deleted = {}
    /\ recentMoods = <<>>
    /\ chartData = <<>>
    /\ NoCalls
    /\ AppSynced("u1")
    /\ form = DefaultForm
    /\ editingMoodId = NoEdit
    /\ submittingMood = FALSE
    /\ moodSubmitError = FALSE
    /\ fetchingMoods = TRUE
    /\ running = [r \in Runs |-> IF r = 1 THEN FetchRun ELSE NoRun]

\* the slider, the notes field or the date picker changes its value
ChangeForm(field, value) ==
    /\ form[field] # value
    /\ form' = [form EXCEPT ![field] = value]
    /\ UNCHANGED <<editingMoodId, submittingMood, moodSubmitError,
                   fetchingMoods, running>>
    /\ UNCHANGED <<recentMoods, chartData, appVars, serverVars, raceVars>>

\* handleSubmitMood up to its await of the response; the button is disabled
\* while submittingMood
HandleSubmitMood ==
    /\ ~submittingMood
    /\ IF ~FormPasses
       THEN /\ moodSubmitError' = TRUE
            /\ UNCHANGED <<submittingMood, running>>
       ELSE /\ Method(editingMoodId) = "POST" =>
                    nextId + Cardinality(PostsInFlight) <= MaxIds
            /\ \E r \in Runs :
                /\ FreeRun(r)
                /\ running' = [running EXCEPT ![r] =
                        [handler |-> "submit",
                         method |-> Method(editingMoodId),
                         id |-> editingMoodId,
                         body |-> MoodData]]
            /\ submittingMood' = TRUE
            /\ moodSubmitError' = FALSE
    /\ UNCHANGED <<form, editingMoodId, fetchingMoods>>
    /\ UNCHANGED <<recentMoods, chartData, appVars, serverVars, raceVars>>

\* the status the server answers the request of a run with, 0 when the
\* request does not reach it
RunStatus(run, reached) ==
    IF ~reached THEN 0
    ELSE CASE run.method = "POST" -> PostStatus(run.body)
           [] run.method = "PUT" ->
                PutStatus(storeUp, store, user, run.id, run.body)
           [] run.method = "DELETE" ->
                DeleteStatus(storeUp, store, user, run.id)
           [] OTHER -> 200

\* the store after the server handled the request of a run
RunStore(run, status) ==
    CASE run.method = "POST" /\ status = 201 ->
            WithDoc(store, nextId, PostEntry(user, run.body))
      [] run.method = "PUT" /\ status = 200 ->
            Updated(store, run.id, UpdateData(run.body))
      [] run.method = "DELETE" /\ status = 204 -> WithoutDoc(store, run.id)
      [] OTHER -> store

\* handleSubmitMood from the response on: the server handles the request and
\* the handler resumes; fetchRecentMoods runs up to its await
SubmitResponds(r, reached) ==
    LET run == running[r]
        status == RunStatus(run, reached)
    IN
    /\ run.handler = "submit"
    /\ store' = RunStore(run, status)
    /\ nextId' = IF run.method = "POST" /\ status = 201
                 THEN nextId + 1 ELSE nextId
    /\ IF Ok(status)
       THEN /\ form' = [moodValue |-> 3, moodNotes |-> Str(<<>>),
                        selectedDateTime |-> now]
            /\ editingMoodId' = NoEdit
            /\ fetchingMoods' = TRUE
            /\ running' = [running EXCEPT ![r] = FetchRun]
            /\ UNCHANGED moodSubmitError
       ELSE /\ moodSubmitError' = TRUE
            /\ running' = [running EXCEPT ![r] = NoRun]
            /\ UNCHANGED <<form, editingMoodId, fetchingMoods>>
    /\ submittingMood' = FALSE
    /\ UNCHANGED <<now, storeUp, resp, deleted>>
    /\ UNCHANGED <<recentMoods, chartData, appVars, raceVars>>

\* fetchRecentMoods from the response on
FetchResponds(r, reached) ==
    LET run == running[r]
        status == RunStatus(run, reached)
    IN
    /\ run.handler = "fetch"
    /\ IF Ok(status)
       THEN recentMoods' = MoodsWithDates(
                Moods(store, OrderDesc(store,
                    Matching(store, user, now - FetchDays))))
       ELSE recentMoods' = <<>>
    /\ fetchingMoods' = FALSE
    /\ running' = [running EXCEPT ![r] = NoRun]
    /\ UNCHANGED <<form, editingMoodId, submittingMood, moodSubmitError>>
    /\ UNCHANGED <<chartData, appVars, serverVars, raceVars>>

\* the Edit button of row k of the table
HandleEditMood(k) ==
    /\ TableShown
    /\ k \in 1..Len(recentMoods)
    /\ form' = [moodValue |-> recentMoods[k].moodValue.n,
                moodNotes |-> recentMoods[k].notes,
                selectedDateTime |-> recentMoods[k].recordedAt]
    /\ editingMoodId' = recentMoods[k].id
    /\ moodSubmitError' = FALSE
    /\ UNCHANGED <<submittingMood, fetchingMoods, running>>
    /\ UNCHANGED <<recentMoods, chartData, appVars, serverVars, raceVars>>

\* the Delete button of row k of the table, confirmed: handleDeleteMood up to
\* its await of the response
HandleDeleteMood(k) ==
    /\ TableShown
    /\ k \in 1..Len(recentMoods)
    /\ user # NoUid
    /\ \E r \in Runs :
        /\ FreeRun(r)
        /\ running' = [running EXCEPT ![r] =
                [handler |-> "delete", method |-> "DELETE",
                 id |-> recentMoods[k].id, body |-> NoBody]]
    /\ submittingMood' = TRUE
    /\ UNCHANGED <<form, editingMoodId, moodSubmitError, fetchingMoods>>
    /\ UNCHANGED <<recentMoods, chartData, appVars, serverVars, raceVars>>

\* handleDeleteMood from the response on
DeleteResponds(r, reached) ==
    LET run == running[r]
        status == RunStatus(run, reached)
    IN
    /\ run.handler = "delete"
    /\ store' = RunStore(run, status)
    /\ deleted' = IF status = 204 THEN deleted \cup {run.id} ELSE deleted
    /\ IF Ok(status)
       THEN /\ fetchingMoods' = TRUE
            /\ running' = [running EXCEPT ![r] = FetchRun]
       ELSE /\ running' = [running EXCEPT ![r] = NoRun]
            /\ UNCHANGED fetchingMoods
    /\ submittingMood' = FALSE
    /\ UNCHANGED <<form, editingMoodId, moodSubmitError>>
    /\ UNCHANGED <<nextId, now, storeUp, resp>>
    /\ UNCHANGED <<recentMoods, chartData, appVars, raceVars>>

\* the Cancel Edit button, shown while editing and disabled while submittingMood
CancelEdit ==
    /\ editingMoodId # NoEdit
    /\ ~submittingMood
    /\ editingMoodId' = NoEdit
    /\ form' = [moodValue |-> 3, moodNotes |-> Str(<<>>),
                selectedDateTime |-> now]
    /\ moodSubmitError' = FALSE
    /\ UNCHANGED <<submittingMood, fetchingMoods, running>>
    /\ UNCHANGED <<recentMoods, chartData, appVars, serverVars, raceVars>>

NextTracker ==
    \/ \E value \in FormMoods : ChangeForm("moodValue", value)
    \/ \E value \in FormNotes : ChangeForm("moodNotes", value)
    \/ \E value \in FormDates : ChangeForm("selectedDateTime", value)
    \/ HandleSubmitMood
    \/ \E r \in Runs, reached \in BOOLEAN : SubmitResponds(r, reached)
    \/ \E r \in Runs, reached \in BOOLEAN : FetchResponds(r, reached)
    \/ \E k \in 1..MaxIds : HandleEditMood(k)
    \/ \E k \in 1..MaxIds : HandleDeleteMood(k)
    \/ \E r \in Runs, reached \in BOOLEAN : DeleteResponds(r, reached)
    \/ CancelEdit

SpecTracker == InitTracker /\ [][NextTracker]_vars

\* ------------------------------------------------------------ the claims
\* a rating of the data model: an integer from 1 to 5
IsRating(v) == v.t = "num" /\ v.n \in 1..5

\* the fields of one document, compared one by one
SameEntry(e, f) ==
    /\ e.userId = f.userId
    /\ e.moodValue = f.moodValue
    /\ e.notes = f.notes
    /\ e.recordedAt = f.recordedAt

\* C1: a submit by an authenticated caller whose input is otherwise valid is
\* answered 201 if and only if its rating is one of the integers 1..5; with
\* any other rating (absent, 0, 6, "x") it is answered 400 and stores nothing.
C1_SubmitIffRating ==
    [][resp'.op \in {"post", "postInline"} =>
        \A hdr \in Authenticated, body \in Bodies :
            (\/ Post(hdr, body) /\ NewDate(body.recordedAt) # NaN
             \/ PostInline(hdr, body) /\ body \in InlineBodies)
            => IF IsRating(body.moodValue)
               THEN resp'.status = 201
               ELSE resp'.status = 400 /\ store' = store]_vars

\* C3: every stored entry has a rating that is an integer in 1..5.
C3_StoredRatings == \A id \in DOMAIN store : IsRating(store[id].moodValue)

\* C2: an update or a delete by an authenticated caller who is not the
\* owner of the entry is answered 403 and leaves the store as it was.
C2_NonOwnerDenied ==
    [][(/\ resp'.op \in {"put", "delete"}
        /\ resp'.caller # NoUid
        /\ resp'.id \in DOMAIN store
        /\ store[resp'.id].userId # resp'.caller)
       => resp'.status = 403 /\ store' = store]_vars

C2_Witness ==
    /\ resp.op = "put"
    /\ resp.status = 403
    /\ resp.id \in DOMAIN store
    /\ store[resp.id].userId # resp.caller

\* the ?days a list request asked for, the route's default when it gave none
WindowDays(r) ==
    IF r.days = Undef THEN (IF r.op = "list" THEN 30 ELSE 7)
    ELSE ParseInt(r.days).n

\* C4: every entry a listRecent returns is an entry of the store, is owned
\* by the caller and was recorded at or after now - days.
C4_RecentOnlyOwnInWindow ==
    (resp.op \in {"list", "listInline"} /\ resp.status = 200) =>
        \A k \in 1..Len(resp.moods) :
            LET m == resp.moods[k] IN
            /\ m.id \in DOMAIN store
            /\ SameEntry(m, store[m.id])
            /\ m.userId = resp.caller
            /\ m.recordedAt >= now - WindowDays(resp)

C4_Witness ==
    /\ resp.op = "list"
    /\ resp.status = 200
    /\ Len(resp.moods) = 1
    /\ \E i \in DOMAIN store :
        /\ store[i].userId = resp.caller
        /\ store[i].recordedAt < now - WindowDays(resp)

\* C5: the entry a submit persists is owned by the subject of the request's
\* verified token, whatever userId the body carries.
C5_OwnerIsTokenSubject ==
    [][(resp'.op \in {"post", "postInline"} /\ store' # store) =>
        /\ resp'.caller \in Uids
        /\ nextId \notin DOMAIN store
        /\ DOMAIN store' = DOMAIN store \cup {nextId}
        /\ store'[nextId].userId = resp'.caller]_vars

C5_Witness ==
    /\ resp.op = "post"
    /\ resp.status = 201
    /\ resp.caller = "u2"
    /\ (nextId - 1) \in DOMAIN store
    /\ store[nextId - 1].userId = "u2"
    /\ "u1" \in UserIdInputs

\* C6: the owner of an entry never changes.
C6_OwnerNeverChanges ==
    [][\A id \in DOMAIN store \cap DOMAIN store' :
            store'[id].userId = store[id].userId]_vars

C6_Witness ==
    /\ resp.op = "put"
    /\ resp.status = 200
    /\ resp.caller = "u2"
    /\ store[resp.id].userId = "u2"
    /\ store[resp.id].notes = Str(<<"o", "k">>)
    /\ "u1" \in UserIdInputs

\* C7: an update or a delete by an authenticated caller of an id the store
\* does not hold is answered 404 and leaves the store as it was.
C7_MissingIsNotFound ==
    [][(/\ resp'.op \in {"put", "delete"}
        /\ resp'.caller # NoUid
        /\ resp'.id \notin DOMAIN store)
       => resp'.status = 404 /\ store' = store]_vars

C7_Witness ==
    /\ resp.op = "delete"
    /\ resp.status = 404
    /\ resp.caller # NoUid
    /\ resp.id \notin DOMAIN store

\* the day an ISO string names
DayNamed(v) == CHOOSE d \in 0..9 : IsoString(d) = v

\* C8: an update answered 200 leaves every field its patch names at the
\* patched value and every other field at its prior value.
C8_UpdateExactlyPatch ==
    [][(resp'.op = "put" /\ resp'.status = 200) =>
        \A hdr \in Authenticated, body \in Bodies :
            Put(hdr, resp'.id, body) =>
                LET e == store[resp'.id]
                    f == store'[resp'.id]
                IN
                /\ f.userId = e.userId
                /\ f.moodValue = IF body.moodValue = Undef THEN e.moodValue
                                 ELSE body.moodValue
                /\ f.notes = IF body.notes = Undef THEN e.notes ELSE body.notes
                /\ f.recordedAt = IF body.recordedAt = Undef THEN e.recordedAt
                                  ELSE DayNamed(body.recordedAt)]_vars

\* C9: an update by the owner whose patch has a rating outside 1..5 is
\* answered 400 and leaves the entry as it was.
C9_UpdateRejectsBadRating ==
    [][resp'.op = "put" =>
        \A hdr \in Authenticated, body \in Bodies :
            (/\ Put(hdr, resp'.id, body)
             /\ resp'.id \in DOMAIN store
             /\ store[resp'.id].userId = FirebaseUid(hdr)
             /\ body.moodValue # Undef
             /\ ~IsRating(body.moodValue))
            => resp'.status = 400 /\ store' = store]_vars

\* C10: an entry whose delete was answered 204 is gone for good: the store
\* never holds it again, no later listRecent returns it, and every later
\* update or delete of its id is answered 404.
C10_DeletedIsGone ==
    [][/\ deleted' \cap DOMAIN store' = {}
       /\ (resp'.op \in {"put", "delete"} /\ resp'.id \in deleted)
            => resp'.status = 404
       /\ resp'.op \in {"list", "listInline"}
            => \A k \in 1..Len(resp'.moods) : resp'.moods[k].id \notin deleted]_vars

C10_Witness ==
    /\ resp.op = "put"
    /\ resp.status = 404
    /\ resp.id \in deleted

\* what a listRecent by uid over the last days days returns after the step
ListedNext(uid, days) ==
    Moods(store', OrderDesc(store', Matching(store', uid, now' - days)))

\* C11: after a submit with a rating in 1..5 and recordedAt now or omitted is
\* answered 201, a listRecent by the same caller over a window covering now
\* holds the new entry exactly once, with the submitted rating and notes.
C11_RoundTrip ==
    [][(resp'.op \in {"post", "postInline"} /\ resp'.status = 201) =>
        \A hdr \in Authenticated, body \in Bodies :
            (/\ \/ Post(hdr, body)
                \/ PostInline(hdr, body) /\ body \in InlineBodies
             /\ IsRating(body.moodValue)
             /\ body.recordedAt \in {Undef, IsoString(now)})
            => \A days \in 0..1 :
                LET listed == ListedNext(resp'.caller, days)
                    new == {k \in 1..Len(listed) :
                                listed[k].id \notin DOMAIN store}
                IN  /\ Cardinality(new) = 1
                    /\ \A k \in new :
                        /\ listed[k].moodValue = body.moodValue
                        /\ listed[k].notes = OrElse(body.notes, Str(<<>>))]_vars

\* C12: a submit answered 201 carries as moodId the id under which the store
\* holds the entry the submit persisted, an entry of the caller.
C12_MoodIdIsStoredId ==
    [][(resp'.op \in {"post", "postInline"} /\ resp'.status = 201) =>
        /\ resp'.moodId.t = "num"
        /\ resp'.moodId.n \in DOMAIN store' \ DOMAIN store
        /\ store'[resp'.moodId.n].userId = resp'.caller]_vars

\* C13: a submit with a rating in 1..5 and no recordedAt is answered 201 and
\* stores the entry with recordedAt the time of the submission.
C13_RecordedAtDefaultsToNow ==
    [][resp'.op \in {"post", "postInline"} =>
        \A hdr \in Authenticated, body \in Bodies :
            (/\ \/ Post(hdr, body)
                \/ PostInline(hdr, body) /\ body \in InlineBodies
             /\ IsRating(body.moodValue)
             /\ body.recordedAt = Undef)
            => /\ resp'.status = 201
               /\ nextId \in DOMAIN store' \ DOMAIN store
               /\ store'[nextId].recordedAt = now]_vars

\* a recordedAt that is present and names no time
BadTimestamp(v) == v # Undef /\ NewDate(v) = NaN

\* C14: a submit, or an update by the owner, whose recordedAt is present but
\* names no time is answered 400, not 500, and leaves the store as it was.
C14_BadTimestampIsValidation ==
    [][resp'.op \in {"post", "put"} =>
        \A hdr \in Authenticated, body \in Bodies :
            (/\ BadTimestamp(body.recordedAt)
             /\ \/ Post(hdr, body)
                \/ /\ Put(hdr, resp'.id, body)
                   /\ resp'.id \in DOMAIN store
                   /\ store[resp'.id].userId = FirebaseUid(hdr))
            => resp'.status = 400 /\ store' = store]_vars

\* a header that carries no bearer token, or a token the verifier rejects
Unverified(hdr) ==
    \/ ~hdr.present
    \/ ~hdr.bearer
    \/ hdr.token = ""
    \/ VerifyIdToken(hdr.token) = NoUid

\* C15: a request whose header carries no bearer token, or a token the
\* verifier rejects, is answered 401 and by no route handler: the 401 leaves
\* the store as it was and carries no entry and no id.
C15_UnverifiedIs401 ==
    /\ [](Idle => \A hdr \in Headers : Unverified(hdr) =>
            /\ \A op \in Routes : ENABLED VerifyReject(op, hdr)
            /\ \A body \in Bodies :
                /\ ~ENABLED Post(hdr, body)
                /\ ~ENABLED PostInline(hdr, body)
                /\ \A id \in Ids : ~ENABLED Put(hdr, id, body)
            /\ \A id \in Ids : ~ENABLED Delete(hdr, id)
            /\ \A daysQ \in DaysInputs :
                /\ ~ENABLED GetRecent(hdr, daysQ)
                /\ ~ENABLED GetRecentInline(hdr, daysQ))
    /\ [][(\E op \in Routes, hdr \in Headers : VerifyReject(op, hdr)) =>
            /\ resp'.status = 401
            /\ store' = store
            /\ resp'.moods = <<>>
            /\ resp'.moodId = NoMoodId]_vars

C15_Witness ==
    /\ resp.op = "list"
    /\ resp.status = 401
    /\ resp.caller = NoUid
    /\ \E i \in DOMAIN store : store[i].userId = "u1"

\* C16: a request whose store operation fails is answered 500, never with a
\* success, and changes nothing; a request answered 400 or 401 issues no
\* store operation.
C16_StoreFailureIs500 ==
    [][(/\ ~storeUp
        /\ resp'.op # "none"
        /\ resp'.status \notin {400, 401})
       => resp'.status = 500 /\ store' = store]_vars

\* the entries other than id are the same before and after the step
OthersUnchanged(id) ==
    /\ DOMAIN store' \ {id} = DOMAIN store \ {id}
    /\ \A i \in DOMAIN store \ {id} : store'[i] = store[i]

\* C17: a submit answered 201 adds one entry and leaves the others as they
\* were, an update answered 200 and a delete answered 204 change no entry
\* but the addressed one, and a request answered 400, 401, 403 or 404 leaves
\* the whole store as it was.
C17_OneWritePerRequest ==
    [][/\ (resp'.op \in {"post", "postInline"} /\ resp'.status = 201) =>
            /\ nextId \in DOMAIN store' \ DOMAIN store
            /\ OthersUnchanged(nextId)
       /\ (resp'.op = "put" /\ resp'.status = 200) =>
            /\ resp'.id \in DOMAIN store'
            /\ OthersUnchanged(resp'.id)
       /\ (resp'.op = "delete" /\ resp'.status = 204) =>
            /\ resp'.id \in DOMAIN store \ DOMAIN store'
            /\ OthersUnchanged(resp'.id)
       /\ resp'.status \in {400, 401, 403, 404} => store' = store]_vars

\* C18: the entries of a listRecent answered 200 are in descending order of
\* recordedAt: each is recorded no earlier than the one after it.
C18_RecentNewestFirst ==
    (resp.op \in {"list", "listInline"} /\ resp.status = 200) =>
        \A k \in 1..(Len(resp.moods) - 1) :
            resp.moods[k].recordedAt >= resp.moods[k + 1].recordedAt

C18_Witness ==
    /\ resp.op = "list"
    /\ resp.status = 200
    /\ Len(resp.moods) = 2
    /\ resp.moods[1].recordedAt > resp.moods[2].recordedAt
    /\ resp.moods[1].id < resp.moods[2].id

\* C19: a listRecent by a caller who has no entry in the window it asks for
\* is answered 200 with an empty sequence.
C19_EmptyWindowIsOk ==
    (/\ resp.op \in {"list", "listInline"}
     /\ resp.caller # NoUid
     /\ resp.days = Undef \/ ParseInt(resp.days) # NaN
     /\ Matching(store, resp.caller, now - WindowDays(resp)) = {})
    => resp.status = 200 /\ resp.moods = <<>>

C19_Witness ==
    /\ resp.op = "list"
    /\ resp.status = 200
    /\ resp.moods = <<>>
    /\ \E i \in DOMAIN store : store[i].userId # resp.caller
    /\ \E i \in DOMAIN store :
        /\ store[i].userId = resp.caller
        /\ store[i].recordedAt < now - WindowDays(resp)

\* moods in the order the permutation p gives
Permuted(moods, p) == [k \in DOMAIN moods |-> moods[p[k]]]

\* C20: prepareChartData is order-independent: every permutation of the
\* moods gives the same sequence of data points as the moods themselves.
C20_OrderIndependent ==
    chartData # <<>> =>
        \A p \in Permutations(DOMAIN recentMoods) :
            PrepareChartData(Permuted(recentMoods, p)) = chartData

\* the calendar day of a time stamp, the time of day discarded
CalendarDay(t) == t \div StampsPerDay

\* the positions of moods whose entry was recorded on day d
OnDay(moods, d) == {i \in DOMAIN moods : CalendarDay(moods[i].recordedAt) = d}

\* the sum of the ratings of moods at the positions S
RECURSIVE SumRatings(_, _)
SumRatings(moods, S) ==
    IF S = {} THEN 0
    ELSE LET i == CHOOSE j \in S : TRUE
         IN  moods[i].moodValue + SumRatings(moods, S \ {i})

\* y, in hundredths, is the quotient total / count rounded to two decimals
IsMeanFixed2(y, total, count) ==
    /\ 2 * (100 * total - y * count) <= count
    /\ 2 * (y * count - 100 * total) <= count

\* C21: the average of each bucket of prepareChartData is the mean of the
\* ratings of all entries of the bucket's calendar day, taken from the whole
\* sum and count and rounded once to two decimals; a day with one entry has
\* that entry's rating.
C21_AverageIsMean ==
    chartData # <<>> =>
        \A k \in DOMAIN chartData :
            LET S == OnDay(recentMoods, CalendarDay(chartData[k].x)) IN
            /\ S # {}
            /\ IsMeanFixed2(chartData[k].y, SumRatings(recentMoods, S),
                            Cardinality(S))
            /\ Cardinality(S) = 1 =>
                \A i \in S : chartData[k].y = 100 * recentMoods[i].moodValue

\* ratings 2 and 4 on one day and 5 on the next give 3.00 and 5.00
C21_Witness ==
    /\ Len(recentMoods) = 3
    /\ recentMoods[1].moodValue = 5
    /\ recentMoods[2].moodValue = 4
    /\ recentMoods[3].moodValue = 2
    /\ CalendarDay(recentMoods[1].recordedAt) = 1
    /\ CalendarDay(recentMoods[2].recordedAt) = 0
    /\ CalendarDay(recentMoods[3].recordedAt) = 0
    /\ Len(chartData) = 2
    /\ chartData[1].y = 300
    /\ chartData[2].y = 500

\* C22: the buckets of prepareChartData are in ascending order of date,
\* oldest first, whatever the order of the input: for the newest-first list
\* of listRecent and for every permutation of it.
C22_OldestFirst ==
    chartData # <<>> =>
        /\ \A k \in 1..(Len(chartData) - 1) :
            CalendarDay(chartData[k].x) < CalendarDay(chartData[k + 1].x)
        /\ \A p \in Permutations(DOMAIN recentMoods) :
            LET data == PrepareChartData(Permuted(recentMoods, p)) IN
            \A k \in 1..(Len(data) - 1) :
                CalendarDay(data[k].x) < CalendarDay(data[k + 1].x)

C22_Witness ==
    /\ Len(recentMoods) = 3
    /\ CalendarDay(recentMoods[1].recordedAt) > CalendarDay(recentMoods[3].recordedAt)
    /\ Len(chartData) = 2
    /\ CalendarDay(chartData[1].x) = CalendarDay(recentMoods[3].recordedAt)
    /\ CalendarDay(chartData[2].x) = CalendarDay(recentMoods[1].recordedAt)

\* the chart is on the page, not the spinner or the 'No data available' text
ChartShown == ~fetchingMoods /\ Len(recentMoods) > 0

\* C23: prepareChartData gives exactly one bucket for each calendar day that
\* has an entry and none for another day, for every order of the input; an
\* empty list gives no bucket, and the page shows no chart for it.
C23_OneBucketPerDay ==
    /\ chartData # <<>> =>
        \A p \in Permutations(DOMAIN recentMoods) :
            LET data == PrepareChartData(Permuted(recentMoods, p))
                days == {CalendarDay(recentMoods[i].recordedAt) :
                            i \in DOMAIN recentMoods}
            IN  /\ {CalendarDay(data[k].x) : k \in DOMAIN data} = days
                /\ Len(data) = Cardinality(days)
                /\ p = [i \in DOMAIN recentMoods |-> i] => data = chartData
    /\ recentMoods = <<>> =>
        /\ PrepareChartData(recentMoods) = <<>>
        /\ chartData = <<>>
        /\ ~ChartShown

C23_Witness ==
    /\ Len(recentMoods) = 3
    /\ recentMoods[1].recordedAt # recentMoods[2].recordedAt
    /\ CalendarDay(recentMoods[1].recordedAt) = CalendarDay(recentMoods[2].recordedAt)
    /\ CalendarDay(recentMoods[3].recordedAt) # CalendarDay(recentMoods[2].recordedAt)
    /\ Len(chartData) = 2

\* the value a patch gives the field f
PatchValue(body, f) ==
    CASE f = "moodValue" -> body.moodValue
      [] f = "notes" -> body.notes
      [] f = "recordedAt" -> DayNamed(body.recordedAt)

\* the run c is an update of the entry by its owner with a well-formed patch
OwnerUpdate(c) ==
    /\ calls[c].op = "put"
    /\ calls[c].uid = RaceEntry.userId
    /\ calls[c].id = 1
    /\ ~BadTimestamp(calls[c].body.recordedAt)

\* C24: two updates of one entry by its owner are not coordinated: under
\* every interleaving of their reads and writes both are answered 200, and
\* once both are done each field holds the value of the update that wrote
\* it last, a field only one of them patched holds that update's value, and
\* a field neither patched is as it was.
C24_LastWriteWins ==
    (\A c \in Calls : OwnerUpdate(c)) =>
        /\ 1 \in DOMAIN store
        /\ store[1].userId = RaceEntry.userId
        /\ \A c \in Calls : calls[c].pc = "done" => calls[c].status = 200
        /\ (\A c \in Calls : calls[c].pc = "done") =>
            \A f \in {"moodValue", "notes", "recordedAt"} :
                LET P == {c \in Calls : calls[c].body[f] # Undef} IN
                IF P = {} THEN store[1][f] = RaceEntry[f]
                ELSE LET last == CHOOSE c \in P :
                                \A d \in P : calls[d].wroteAt <= calls[c].wroteAt
                     IN  store[1][f] = PatchValue(calls[last].body, f)

\* both updates read before either wrote; the one that read first wrote last
C24_Witness ==
    /\ \A c \in Calls : OwnerUpdate(c) /\ calls[c].pc = "done"
    /\ calls[1].readAt = 0
    /\ calls[2].readAt = 0
    /\ calls[1].wroteAt = 2
    /\ calls[2].wroteAt = 1
    /\ calls[1].body.moodValue = Num(5)
    /\ calls[2].body.moodValue = Num(1)
    /\ calls[1].body.notes = Undef
    /\ calls[2].body.notes # Undef
    /\ store[1].moodValue = Num(5)
    /\ store[1].notes = calls[2].body.notes

SyncInFlight == \E k \in Syncs : syncs[k] # NoUid

\* a step in which a sync fails
SyncFailsStep == \E k \in Syncs : SyncFails(k)

\* a step in which the auth state changes to no user
SignOutStep == user # NoUid /\ AuthStateChanged(NoUid)

\* C26: MoodTracker is rendered only while a user is signed in, no sync is
\* in progress and firestoreUserId is set; a failed sync and a sign-out clear
\* firestoreUserId, and MoodTracker is not rendered after them.
C26_RenderedOnlySynced ==
    /\ [](MoodTrackerRendered =>
            user # NoUid /\ ~SyncInFlight /\ firestoreUserId # NoUid)
    /\ [][SyncFailsStep \/ SignOutStep =>
            firestoreUserId' = NoUid /\ ~MoodTrackerRendered']_vars

\* C27: under every interleaving of auth-state changes and sync responses,
\* firestoreUserId is null or the identifier of the signed-in user.
C27_FirestoreUserIdIsCurrentUser ==
    firestoreUserId \in {NoUid, user}


\* ----------------------------------------------------------- MoodTracker
\* the step sends one request, of handleSubmitMood, with the form's values:
\* a PUT to the entry being edited, a POST to the collection otherwise
OneSubmitSent ==
    \E r \in Runs :
        /\ running[r] = NoRun
        /\ running'[r].handler = "submit"
        /\ running'[r].body = MoodData
        /\ IF editingMoodId # NoEdit
           THEN running'[r].method = "PUT" /\ running'[r].id = editingMoodId
           ELSE running'[r].method = "POST" /\ running'[r].id = 0
        /\ \A q \in Runs \ {r} : running'[q] = running[q]

\* after the response of a submit: cleared and reset when it is ok, left as
\* they were when it is not
SubmitAnswered ==
    \A r \in Runs, reached \in BOOLEAN :
        SubmitResponds(r, reached) =>
            IF Ok(RunStatus(running[r], reached))
            THEN editingMoodId' = NoEdit /\ form' = DefaultForm
            ELSE editingMoodId' = editingMoodId /\ form' = form

WriteInFlight ==
    \E r \in Runs : running[r].handler \in {"submit", "delete"}

\* C29: submittingMood is true whenever a submit, update or delete request of
\* the component is in flight, and false once none is, under every
\* interleaving of handleSubmitMood and handleDeleteMood.
C29_SubmittingIffInFlight ==
    submittingMood <=> WriteInFlight

\* a list refresh awaits its response
FetchInFlight == \E r \in Runs : running[r].handler = "fetch"

\* C30: whenever editingMoodId is non-null and no list refresh is in flight,
\* it is the id of an entry present in recentMoods.
C30_EditedEntryIsListed ==
    editingMoodId # NoEdit /\ ~FetchInFlight =>
        \E k \in 1..Len(recentMoods) : recentMoods[k].id = editingMoodId

====
